---- MODULE Spec2Model ----
(***************************************************************************)
(* Key-value server lineage of the tutorial (chapters 20, 21, 22, 25):     *)
(* the worker pool (thread_pool.rs), the connection handlers, the          *)
(* line protocol and the shared store.                                     *)
(***************************************************************************)
EXTENDS Integers, Sequences, FiniteSets, TLC

(* ---------------------------- bounds ---------------------------------- *)
PoolSize == 2
MaxJobs == 3
MaxLines == 2
MaxCmds == 2
MaxValLen == 4
MaxSteps == 3
MaxPushes == 2
MaxIdx == 5

Workers == 1..PoolSize
Jobs == 1..MaxJobs


(* ------------------------------ strings -------------------------------- *)
\* A Rust String / &str is a sequence of one-character strings.
NL == "\n"
SP == " "

\* char::is_whitespace on the characters the model uses
IsWhitespace(c) == c \in {SP, NL, "\t", "\r"}

LowerChars == <<"a","b","c","d","e","f","g","h","i","j","k","l","m",
                "n","o","p","q","r","s","t","u","v","w","x","y","z">>
UpperChars == <<"A","B","C","D","E","F","G","H","I","J","K","L","M",
                "N","O","P","Q","R","S","T","U","V","W","X","Y","Z">>

\* char::to_ascii_uppercase
UpperChar(c) ==
  IF \E i \in 1..26 : LowerChars[i] = c
  THEN UpperChars[CHOOSE i \in 1..26 : LowerChars[i] = c]
  ELSE c

\* str::to_uppercase
ToUppercase(s) == [i \in 1..Len(s) |-> UpperChar(s[i])]

\* str::eq_ignore_ascii_case
EqIgnoreAsciiCase(s, t) == ToUppercase(s) = ToUppercase(t)

\* Position of the first space of s, 0 when it has none.
FirstSpace(s) ==
  IF \E i \in 1..Len(s) : s[i] = SP
  THEN CHOOSE i \in 1..Len(s) : s[i] = SP /\ \A j \in 1..(i-1) : s[j] # SP
  ELSE 0

RECURSIVE Splitn(_, _)
\* str::splitn(n, ' '): at most n parts, the last one is the remainder.
Splitn(n, s) ==
  IF n <= 1 \/ FirstSpace(s) = 0
  THEN <<s>>
  ELSE <<SubSeq(s, 1, FirstSpace(s) - 1)>>
         \o Splitn(n - 1, SubSeq(s, FirstSpace(s) + 1, Len(s)))

RECURSIVE TrimStart(_)
TrimStart(s) ==
  IF s # <<>> /\ IsWhitespace(Head(s)) THEN TrimStart(Tail(s)) ELSE s

RECURSIVE TrimEnd(_)
TrimEnd(s) ==
  IF s # <<>> /\ IsWhitespace(s[Len(s)])
  THEN TrimEnd(SubSeq(s, 1, Len(s) - 1)) ELSE s

\* str::trim
Trim(s) == TrimEnd(TrimStart(s))

\* Length of the run of non-whitespace characters s starts with.
WordLen(s) ==
  IF \E i \in 1..Len(s) : IsWhitespace(s[i])
  THEN (CHOOSE i \in 1..Len(s) :
          IsWhitespace(s[i]) /\ \A j \in 1..(i-1) : ~IsWhitespace(s[j])) - 1
  ELSE Len(s)

RECURSIVE SplitWhitespace(_)
\* str::split_whitespace: the maximal runs of non-whitespace characters.
SplitWhitespace(s) ==
  IF s = <<>> THEN <<>>
  ELSE IF IsWhitespace(Head(s)) THEN SplitWhitespace(Tail(s))
  ELSE <<SubSeq(s, 1, WordLen(s))>>
         \o SplitWhitespace(SubSeq(s, WordLen(s) + 1, Len(s)))

RECURSIVE Join(_, _)
\* [String]::join(sep)
Join(parts, sep) ==
  IF parts = <<>> THEN <<>>
  ELSE IF Len(parts) = 1 THEN parts[1]
  ELSE parts[1] \o sep \o Join(Tail(parts), sep)

Digits == <<"0","1","2","3","4","5","6","7","8","9">>
IsDigit(c) == \E i \in 1..10 : Digits[i] = c
DigitVal(c) == (CHOOSE i \in 1..10 : Digits[i] = c) - 1

RECURSIVE FmtNat(_)
\* Display of a non-negative integer
FmtNat(n) == IF n < 10 THEN <<Digits[n + 1]>>
             ELSE FmtNat(n \div 10) \o <<Digits[(n % 10) + 1]>>

\* format!("{}", n) for an integer
FmtInt(n) == IF n < 0 THEN <<"-">> \o FmtNat(0 - n) ELSE FmtNat(n)

(* --------------------------- the store map ----------------------------- *)
\* HashMap<String, V>: a function whose domain is the set of present keys.
EmptyMap == [k \in {} |-> <<>>]
\* HashMap::insert
MapInsert(m, key, v) ==
  [k \in (DOMAIN m) \cup {key} |-> IF k = key THEN v ELSE m[k]]
\* HashMap::remove
MapRemove(m, key) == [k \in (DOMAIN m) \ {key} |-> m[k]]
\* HashMap::contains_key / get(..).is_some()
MapHas(m, key) == key \in DOMAIN m

\* Mutant: an iteration that may visit a key more than once and miss others.
KeyOrdersWithRepeats(m) == [1..Cardinality(DOMAIN m) -> DOMAIN m]
\* The orders HashMap::keys may iterate in: every arrangement of the keys.
KeyOrders(m) ==
  {o \in [1..Cardinality(DOMAIN m) -> DOMAIN m] :
     \A i, j \in 1..Cardinality(DOMAIN m) : i # j => o[i] # o[j]}

(* ------------------ basic protocol (chapters 20, 21, 22) --------------- *)
W_SET == <<"S","E","T">>
W_set == <<"s","e","t">>
W_GET == <<"G","E","T">>
W_get == <<"g","e","t">>
W_DEL == <<"D","E","L">>
W_del == <<"d","e","l">>
W_KEYS == <<"K","E","Y","S">>
W_keys == <<"k","e","y","s">>
W_QUIT == <<"Q","U","I","T">>
W_quit == <<"q","u","i","t">>

RespOK == <<"O","K",NL>>
RespValue(v) == <<"V","A","L","U","E",SP>> \o v \o <<NL>>
RespNotFound == <<"N","O","T","_","F","O","U","N","D",NL>>
RespKeysEmpty == <<"K","E","Y","S",SP,"(","e","m","p","t","y",")",NL>>
RespKeys(ks) == <<"K","E","Y","S",SP>> \o Join(ks, <<SP>>) \o <<NL>>
RespBye == <<"B","Y","E",NL>>
RespUnknown == <<"E","R","R","O","R",SP,"u","n","k","n","o","w","n",SP,
                 "c","o","m","m","a","n","d",NL>>

\* The match on parts.as_slice() of execute_command: which arm a line takes.
ParseBasic(line) ==
  LET parts == Splitn(3, line) IN
  IF Len(parts) = 3 /\ parts[1] \in {W_SET, W_set}
    THEN [op |-> "SET", key |-> parts[2], value |-> parts[3]]
  ELSE IF Len(parts) = 2 /\ parts[1] \in {W_GET, W_get}
    THEN [op |-> "GET", key |-> parts[2]]
  ELSE IF Len(parts) = 2 /\ parts[1] \in {W_DEL, W_del}
    THEN [op |-> "DEL", key |-> parts[2]]
  ELSE IF Len(parts) = 1 /\ parts[1] \in {W_KEYS, W_keys}
    THEN [op |-> "KEYS"]
  ELSE IF Len(parts) = 1 /\ parts[1] \in {W_QUIT, W_quit}
    THEN [op |-> "QUIT"]
  ELSE [op |-> "UNKNOWN"]

\* Mutant: a missing key is answered like an empty value.
GetBasicEmptyValue(m, key) ==
  IF MapHas(m, key) THEN RespValue(m[key]) ELSE RespValue(<<>>)
\* The GET arm: the response for a lookup in map m.
GetBasic(m, key) ==
  IF MapHas(m, key) THEN RespValue(m[key]) ELSE RespNotFound

\* The KEYS arm: the responses it can give, one per iteration order.
KeysBasic(m) ==
  IF DOMAIN m = {} THEN {RespKeysEmpty}
  ELSE {RespKeys(o) : o \in KeyOrders(m)}

\* execute_command of the basic servers as a relation: the results
\* [resp, store] it can return for a line on map m.
ExecuteBasic(line, m) ==
  LET c == ParseBasic(line) IN
  CASE c.op = "SET" ->
         {[resp |-> RespOK, store |-> MapInsert(m, c.key, c.value)]}
    [] c.op = "GET" -> {[resp |-> GetBasic(m, c.key), store |-> m]}
    [] c.op = "DEL" -> {[resp |-> RespOK, store |-> MapRemove(m, c.key)]}
    [] c.op = "KEYS" -> {[resp |-> r, store |-> m] : r \in KeysBasic(m)}
    [] c.op = "QUIT" -> {[resp |-> RespBye, store |-> m]}
    [] OTHER -> {[resp |-> RespUnknown, store |-> m]}


(* ------------------ extended protocol (chapter 25) --------------------- *)
W_LPUSH == <<"L","P","U","S","H">>
W_LRANGE == <<"L","R","A","N","G","E">>
W_PING == <<"P","I","N","G">>

\* enum Value
StringValue(str) == [t |-> "String", s |-> str]
ListValue(vec) == [t |-> "List", v |-> vec]

\* usize::MAX + 1.  TLC's integers are 32 bits wide, so the model
\* wraps at its largest value; the only negative value ever cast is -1
\* (len - 1 of an empty list), which lands above every list length.
UsizeModulus == 2147483647

RECURSIVE DigitsVal(_)
DigitsVal(s) ==
  IF s = <<>> THEN 0
  ELSE 10 * DigitsVal(SubSeq(s, 1, Len(s) - 1)) + DigitVal(s[Len(s)])

\* str::parse::<i64>(): an optional sign and at least one digit.  (Numbers
\* of 19 digits and more, which overflow to Err, are longer than any token
\* of the model's lines.)
ParseI64(s) ==
  LET body == IF s # <<>> /\ Head(s) \in {"-", "+"} THEN Tail(s) ELSE s
      wellFormed == body # <<>> /\ \A i \in 1..Len(body) : IsDigit(body[i])
      n == IF s # <<>> /\ Head(s) = "-" THEN 0 - DigitsVal(body)
           ELSE DigitsVal(body)
  IN IF wellFormed
     THEN [ok |-> TRUE, val |-> n]
     ELSE [ok |-> FALSE, val |-> 0]

\* Result<i64, _>::unwrap_or(d)
UnwrapOr(r, d) == IF r.ok THEN r.val ELSE d

Max(a, b) == IF a >= b THEN a ELSE b
Min(a, b) == IF a <= b THEN a ELSE b

\* i64 as usize
AsUsize(x) == x % UsizeModulus

RespPlusOK == <<"+","O","K",NL>>
RespBulk(v) == <<"$">> \o v \o <<NL>>
RespNull == <<"$","-","1",NL>>
RespInteger(n) == <<":">> \o FmtInt(n) \o <<NL>>
RespWrongType == <<"-","W","R","O","N","G","T","Y","P","E",NL>>
RespEmptyArray == <<"*","0",NL>>
RespArray(items) ==
  <<"*">> \o FmtInt(Len(items)) \o <<NL>>
    \o Join([i \in 1..Len(items) |-> <<"$">> \o items[i]], <<NL>>) \o <<NL>>
RespPong == <<"+","P","O","N","G",NL>>
RespEmptyCommand == <<"E","R","R","O","R",SP,"e","m","p","t","y",SP,
                      "c","o","m","m","a","n","d",NL>>
RespErrUnknown == <<"-">> \o RespUnknown
\* The task died in execute_command (a slice index out of range).
RespPanic == <<"!","p","a","n","i","c">>

\* The match on parts[0].to_uppercase() with its guards on parts.len().
ParseExt(line) ==
  LET parts == SplitWhitespace(line)
      n == Len(parts)
      verb == IF n = 0 THEN <<>> ELSE ToUppercase(parts[1])
  IN
  IF n = 0 THEN [op |-> "EMPTY"]
  ELSE IF verb = W_SET /\ n >= 3
    THEN [op |-> "SET", key |-> parts[2],
          value |-> Join(SubSeq(parts, 3, n), <<SP>>)]
  ELSE IF verb = W_GET /\ n = 2 THEN [op |-> "GET", key |-> parts[2]]
  ELSE IF verb = W_DEL /\ n >= 2
    THEN [op |-> "DEL", keys |-> SubSeq(parts, 2, n)]
  ELSE IF verb = W_LPUSH /\ n >= 3
    THEN [op |-> "LPUSH", key |-> parts[2], values |-> SubSeq(parts, 3, n)]
  ELSE IF verb = W_LRANGE /\ n = 4
    THEN [op |-> "LRANGE", key |-> parts[2],
          start |-> UnwrapOr(ParseI64(parts[3]), 0),
          stop |-> UnwrapOr(ParseI64(parts[4]), 0 - 1)]
  ELSE IF verb = W_PING THEN [op |-> "PING"]
  ELSE IF verb = W_QUIT THEN [op |-> "QUIT"]
  ELSE [op |-> "UNKNOWN"]

\* The GET arm
GetExt(m, key) ==
  IF ~MapHas(m, key) THEN RespNull
  ELSE IF m[key].t = "String" THEN RespBulk(m[key].s)
  ELSE RespWrongType

\* Mutant: the reply counts every listed key, present or not.
DelExtCountsListed(m, keys, count) ==
  [resp |-> RespInteger(count + Len(keys)),
   store |-> [k \in (DOMAIN m) \ {keys[i] : i \in 1..Len(keys)} |-> m[k]]]
RECURSIVE DelExt(_, _, _)
\* The DEL arm: the loop over parts[1..], counting the removals.
DelExt(m, keys, count) ==
  IF keys = <<>> THEN [resp |-> RespInteger(count), store |-> m]
  ELSE DelExt(MapRemove(m, Head(keys)), Tail(keys),
              IF MapHas(m, Head(keys)) THEN count + 1 ELSE count)

\* Mutant: the values are inserted at the front in the order of the command,
\* which leaves them reversed.
InsertFrontInOrder(vec, values) ==
  [i \in 1..Len(values) |-> values[Len(values) + 1 - i]] \o vec
RECURSIVE InsertFront(_, _)
\* for v in values.into_iter().rev() { vec.insert(0, v) }
InsertFront(vec, values) ==
  IF values = <<>> THEN vec
  ELSE InsertFront(<<values[Len(values)]>> \o vec,
                   SubSeq(values, 1, Len(values) - 1))

\* Mutant: LPUSH on a key that holds a string replaces it by a list.
LPushExtOverwrites(m, key, values) ==
  LET vec == InsertFront(IF MapHas(m, key) /\ m[key].t = "List"
                         THEN m[key].v ELSE <<>>, values)
  IN [resp |-> RespInteger(Len(vec)),
      store |-> MapInsert(m, key, ListValue(vec))]
\* The LPUSH arm
LPushExt(m, key, values) ==
  LET cur == IF MapHas(m, key) THEN m[key] ELSE ListValue(<<>>)
  IN IF cur.t = "List"
     THEN LET vec == InsertFront(cur.v, values)
          IN [resp |-> RespInteger(Len(vec)),
              store |-> MapInsert(m, key, ListValue(vec))]
     ELSE [resp |-> RespWrongType, store |-> m]

\* The start and stop bounds LRANGE computes for a list of length len.
RangeStart(start, len) ==
  AsUsize(IF start < 0 THEN Max(len + start, 0) ELSE Min(start, len))
\* Mutant: a non-negative stop is clamped to len instead of len - 1.
RangeStopUpToLen(stop, len) ==
  AsUsize(IF stop < 0 THEN Max(len + stop, 0) ELSE Min(stop, len))
RangeStop(stop, len) ==
  AsUsize(IF stop < 0 THEN Max(len + stop, 0) ELSE Min(stop, len - 1))

\* The LRANGE arm
LRangeExt(m, key, start, stop) ==
  IF ~MapHas(m, key) THEN RespEmptyArray
  ELSE IF m[key].t = "String" THEN RespWrongType
  ELSE LET vec == m[key].v
           len == Len(vec)
           a == RangeStart(start, len)
           b == RangeStop(stop, len)
       IN IF a > b THEN RespEmptyArray
          ELSE IF b >= len THEN RespPanic
          ELSE RespArray(SubSeq(vec, a + 1, b + 1))

\* execute_command of the extended server: the result for a line on map m.
ExecuteExt(line, m) ==
  LET c == ParseExt(line) IN
  CASE c.op = "EMPTY" -> [resp |-> RespEmptyCommand, store |-> m]
    [] c.op = "SET" ->
         [resp |-> RespPlusOK,
          store |-> MapInsert(m, c.key, StringValue(c.value))]
    [] c.op = "GET" -> [resp |-> GetExt(m, c.key), store |-> m]
    [] c.op = "DEL" -> DelExt(m, c.keys, 0)
    [] c.op = "LPUSH" -> LPushExt(m, c.key, c.values)
    [] c.op = "LRANGE" ->
         [resp |-> LRangeExt(m, c.key, c.start, c.stop), store |-> m]
    [] c.op = "PING" -> [resp |-> RespPong, store |-> m]
    [] c.op = "QUIT" -> [resp |-> RespPlusOK, store |-> m]
    [] OTHER -> [resp |-> RespErrUnknown, store |-> m]

(* --------------------------- pool state ------------------------------- *)
VARIABLES
  sender,     \* ThreadPool.sender: TRUE = Some(sender), FALSE = None
  queue,      \* the mpsc channel: jobs sent and not yet received
  rxHolder,   \* holder of the Mutex around the shared Receiver (0 = free)
  wpc,        \* position of each worker thread in its loop
  wjob,       \* the job a worker is executing (0 = none)
  dpc,        \* position of the pool owner (main): "alive", "joining",
              \* "dropped"; "panicked" when main has unwound
  joinIdx,    \* index of the worker Drop is joining
  nextJob,    \* next job the owner submits
  sent,       \* jobs handed to execute()
  runs,       \* how many times each job was started
  outcome     \* how each job ended: "none", "returned" or "panicked"

(* -------------------------- server state ------------------------------ *)
VARIABLES
  variant,    \* which server runs: "st" (ch. 20), "mt" (21), "async" (22),
              \* "ext" (25)
  store,      \* the HashMap behind the store
  rw,         \* the RwLock: [writer |-> connection or 0, readers |-> set]
  hpc,        \* position of each connection's handle_client
  line,       \* the line handed to execute_command
  resp,       \* the response execute_command returned
  snap,       \* the map as the running insert/remove found it
  rest,       \* what each connecting peer has still to send (lines
              \* without the \n)
  inp,        \* lines the handler has read so far
  out,        \* responses written: [n |-> index in inp, resp |-> bytes]
  closedBy    \* why the session ended

srvVars == <<variant, store, rw, hpc, line, resp, snap, rest, inp, out,
             closedBy>>

poolVars == <<sender, queue, rxHolder, wpc, wjob, dpc, joinIdx, nextJob,
              sent, runs, outcome>>

vars == <<poolVars, srvVars>>

Terminated(w) == wpc[w] \in {"exited", "panicked"}

\* The Receiver lives in an Arc held by the worker closures only: it is
\* dropped when the last worker thread has ended.
ReceiverAlive == \E w \in Workers : ~Terminated(w)

\* ThreadPool::new: an open channel and PoolSize workers entering their loop.
PoolNew ==
  /\ sender = TRUE
  /\ queue = <<>>
  /\ rxHolder = 0
  /\ wpc = [w \in Workers |-> "lock"]
  /\ wjob = [w \in Workers |-> 0]
  /\ dpc = "alive"
  /\ joinIdx = 0
  /\ nextJob = 1
  /\ sent = {}
  /\ runs = [j \in Jobs |-> 0]
  /\ outcome = [j \in Jobs |-> "none"]

\* Mutant: a channel that hands out the newest job first.
SendToFront(j) == IF ReceiverAlive THEN <<j>> \o queue ELSE queue
\* sender.send(job).ok(): the job is queued while the Receiver exists and
\* is lost (the Err is ignored) once it has been dropped.
Send(j) == IF ReceiverAlive THEN Append(queue, j) ELSE queue

\* ThreadPool::execute
Execute(j) ==
  /\ dpc = "alive"
  /\ j = nextJob
  /\ nextJob <= MaxJobs
  /\ nextJob' = nextJob + 1
  /\ sent' = sent \cup {j}
  /\ queue' = IF sender THEN Send(j) ELSE queue
  /\ UNCHANGED <<sender, rxHolder, wpc, wjob, dpc, joinIdx, runs, outcome>>

\* receiver.lock().unwrap(): the worker takes the free mutex.
WorkerLock(w) ==
  /\ wpc[w] = "lock"
  /\ rxHolder = 0
  /\ rxHolder' = w
  /\ wpc' = [wpc EXCEPT ![w] = "recv"]
  /\ UNCHANGED <<sender, queue, wjob, dpc, joinIdx, nextJob, sent, runs,
                 outcome>>

\* What recv() leaves in the channel after handing out its head.
Dequeue(q) == Tail(q)

\* Mutant: the guard lives as long as the job (as in a `while let` on
\* lock().unwrap().recv()), so the mutex stays held while job() runs.
WorkerRecvOkHoldsLock(w) ==
  /\ wpc[w] = "recv"
  /\ rxHolder = w
  /\ queue # <<>>
  /\ wjob' = [wjob EXCEPT ![w] = Head(queue)]
  /\ runs' = [runs EXCEPT ![Head(queue)] = @ + 1]
  /\ queue' = Tail(queue)
  /\ wpc' = [wpc EXCEPT ![w] = "run"]
  /\ UNCHANGED <<sender, rxHolder, dpc, joinIdx, nextJob, sent, outcome>>
\* recv() returns Ok(job); the guard is a temporary of the let statement,
\* so the mutex is released before job() starts.
WorkerRecvOk(w) ==
  /\ wpc[w] = "recv"
  /\ rxHolder = w
  /\ queue # <<>>
  /\ wjob' = [wjob EXCEPT ![w] = Head(queue)]
  /\ runs' = [runs EXCEPT ![Head(queue)] = @ + 1]
  /\ queue' = Dequeue(queue)
  /\ rxHolder' = 0
  /\ wpc' = [wpc EXCEPT ![w] = "run"]
  /\ UNCHANGED <<sender, dpc, joinIdx, nextJob, sent, outcome>>

\* recv() returns Err: the channel is empty and the sender is gone; break.
WorkerRecvErr(w) ==
  /\ wpc[w] = "recv"
  /\ rxHolder = w
  /\ queue = <<>>
  /\ sender = FALSE
  /\ rxHolder' = 0
  /\ wpc' = [wpc EXCEPT ![w] = "exited"]
  /\ UNCHANGED <<sender, queue, wjob, dpc, joinIdx, nextJob, sent, runs,
                 outcome>>

\* job() returns (the closure has run to its end): the worker loops back
\* to the lock.
JobReturn(w) ==
  /\ wpc[w] = "run"
  /\ hpc[wjob[w]] = "closed"
  /\ outcome' = [outcome EXCEPT ![wjob[w]] = "returned"]
  /\ wjob' = [wjob EXCEPT ![w] = 0]
  /\ wpc' = [wpc EXCEPT ![w] = "lock"]
  /\ UNCHANGED <<sender, queue, rxHolder, dpc, joinIdx, nextJob, sent, runs>>

\* Where a worker thread stands after job() unwound: the closure of
\* thread::spawn has no catch_unwind, the panic ends the thread.
AfterPanic == "panicked"

\* job() panics.  When this was the last worker the Receiver is dropped and
\* the jobs still in the channel are dropped with it.
JobPanic(w) ==
  /\ wpc[w] = "run"
  /\ outcome' = [outcome EXCEPT ![wjob[w]] = "panicked"]
  /\ wjob' = [wjob EXCEPT ![w] = 0]
  /\ wpc' = [wpc EXCEPT ![w] = AfterPanic]
  /\ queue' = IF AfterPanic = "panicked"
                 /\ \A o \in Workers \ {w} : Terminated(o)
              THEN <<>> ELSE queue
  /\ UNCHANGED <<sender, rxHolder, dpc, joinIdx, nextJob, sent, runs>>

\* Mutant: drop goes on to join the workers with the sender still in place.
DropSenderKept ==
  /\ dpc = "alive"
  /\ dpc' = "joining"
  /\ joinIdx' = 1
  /\ UNCHANGED <<sender, queue, rxHolder, wpc, wjob, nextJob, sent, runs,
                 outcome>>
\* Drop for ThreadPool: drop(self.sender.take())
DropSender ==
  /\ dpc = "alive"
  /\ sender' = FALSE
  /\ dpc' = "joining"
  /\ joinIdx' = 1
  /\ UNCHANGED <<queue, rxHolder, wpc, wjob, nextJob, sent, runs, outcome>>

\* thread.join() returns once the worker thread has ended.
Joined(w) == Terminated(w)

\* Drop for ThreadPool: the loop over the workers, thread.join().ok()
DropJoin ==
  /\ dpc = "joining"
  /\ joinIdx <= PoolSize
  /\ Joined(joinIdx)
  /\ joinIdx' = joinIdx + 1
  /\ dpc' = IF joinIdx = PoolSize THEN "dropped" ELSE "joining"
  /\ UNCHANGED <<sender, queue, rxHolder, wpc, wjob, nextJob, sent, runs,
                 outcome>>

\* The pool on its own, as tests::test_thread_pool drives it: the jobs
\* are closures that touch no connection and can end at any time.
PoolInit ==
  /\ PoolNew
  /\ variant = "mt"
  /\ store = EmptyMap
  /\ rw = [writer |-> 0, readers |-> {}]
  /\ hpc = [c \in Jobs |-> "closed"]
  /\ line = [c \in Jobs |-> <<>>]
  /\ resp = [c \in Jobs |-> <<>>]
  /\ snap = [c \in Jobs |-> EmptyMap]
  /\ rest = [c \in Jobs |-> <<>>]
  /\ inp = [c \in Jobs |-> <<>>]
  /\ out = [c \in Jobs |-> <<>>]
  /\ closedBy = [c \in Jobs |-> "none"]

PoolNext ==
  \/ \E j \in Jobs : Execute(j) /\ UNCHANGED srvVars
  \/ \E w \in Workers : WorkerLock(w) /\ UNCHANGED srvVars
  \/ \E w \in Workers : WorkerRecvOk(w) /\ UNCHANGED srvVars
  \/ \E w \in Workers : WorkerRecvErr(w) /\ UNCHANGED srvVars
  \/ \E w \in Workers : JobReturn(w) /\ UNCHANGED srvVars
  \/ \E w \in Workers : JobPanic(w) /\ UNCHANGED srvVars
  \/ DropSender /\ UNCHANGED srvVars
  \/ DropJoin /\ UNCHANGED srvVars

SpecPool == PoolInit /\ [][PoolNext]_vars

\* The pool with its threads scheduled: a worker that can take the free
\* mutex, return from recv() or finish its job eventually does (every job
\* ends, by returning or by panicking), and the thread inside drop goes on
\* with its joins.  Whether and when the owner submits or drops is free.
PoolFairness ==
  /\ \A w \in Workers :
       /\ WF_vars(WorkerLock(w) /\ UNCHANGED srvVars)
       /\ WF_vars(WorkerRecvOk(w) /\ UNCHANGED srvVars)
       /\ WF_vars(WorkerRecvErr(w) /\ UNCHANGED srvVars)
       /\ WF_vars((JobReturn(w) \/ JobPanic(w)) /\ UNCHANGED srvVars)
  /\ WF_vars(DropJoin /\ UNCHANGED srvVars)

SpecPoolLive == PoolInit /\ [][PoolNext]_vars /\ PoolFairness


(* ----------------------- connection handlers --------------------------- *)
Variants == {"st", "mt", "async", "ext"}
Conns == Jobs

\* BufRead::lines: the bytes up to the newline, without "\n" or "\r\n".
LinesItem(wire) ==
  LET body == IF wire # <<>> /\ wire[Len(wire)] = NL
              THEN SubSeq(wire, 1, Len(wire) - 1) ELSE wire
  IN IF body # <<>> /\ body[Len(body)] = "\r"
     THEN SubSeq(body, 1, Len(body) - 1) ELSE body

\* The line execute_command is called with, for the raw line the peer sent
\* (raw carries no newline; the wire bytes are raw followed by "\n").
PassedLine(v, raw) ==
  IF v \in {"st", "mt"} THEN LinesItem(raw \o <<NL>>)
  ELSE Trim(raw \o <<NL>>)

\* Mutant: lines that are no known command are dropped without a response.
SkipUnknownLine(v, raw) ==
  \/ v # "ext" /\ PassedLine(v, raw) = <<>>
  \/ v # "ext" /\ ParseBasic(PassedLine(v, raw)).op = "UNKNOWN"
  \/ v = "ext" /\ ParseExt(PassedLine(v, raw)).op = "UNKNOWN"
\* if line.is_empty() { continue; } -- the extended server has no such test.
SkipLine(v, raw) == v # "ext" /\ PassedLine(v, raw) = <<>>

\* Mutant: the loop also ends after the response to an unknown command.
BreaksOnQuitOrError(v, ln) ==
  \/ v # "ext" /\ ParseBasic(ln).op \in {"QUIT", "UNKNOWN"}
  \/ v = "ext" /\ ParseExt(ln).op \in {"QUIT", "UNKNOWN"}
\* The test that ends the loop after the response was written.
BreaksOnQuit(v, ln) ==
  CASE v \in {"st", "mt"} -> EqIgnoreAsciiCase(Trim(ln), W_QUIT)
    [] v = "async" -> EqIgnoreAsciiCase(ln, W_QUIT)
    [] OTHER -> FALSE

\* Which lock the arm of execute_command taken by a line acquires.
LockKind(v, ln) ==
  CASE v = "st" -> "none"
    [] v = "ext" ->
         IF ParseExt(ln).op \in {"SET", "DEL", "LPUSH"} THEN "write"
         ELSE IF ParseExt(ln).op \in {"GET", "LRANGE"} THEN "read"
         ELSE "none"
    [] OTHER ->
         IF ParseBasic(ln).op \in {"SET", "DEL"} THEN "write"
         ELSE IF ParseBasic(ln).op \in {"GET", "KEYS"} THEN "read"
         ELSE "none"

\* execute_command of server v: the results it can return on map m.
Exec(v, ln, m) ==
  IF v = "ext" THEN {ExecuteExt(ln, m)} ELSE ExecuteBasic(ln, m)

\* What a lookup returns when it runs while the map is being mutated.
RespTorn == <<"?">>

\* Mutant: a read lock that is granted while a writer holds the lock.
CanReadDuringWrite == TRUE
\* RwLock::read can return: no writer holds the lock.
CanRead == rw.writer = 0
\* Mutants: a write lock that ignores the readers / the other writers.
CanWriteDespiteReaders == rw.writer = 0
CanWriteDespiteWriter == rw.readers = {}
\* RwLock::write can return: nobody holds the lock.
CanWrite == rw.writer = 0 /\ rw.readers = {}

\* The peers that connect.
Peers == DOMAIN rest

\* Mutant: every accepted connection gets a thread of its own.
OnOwnThread(c) == TRUE
\* The handler of connection c is on a thread or task that can take steps:
\* in the thread-pooled server a worker is executing the job.
OnThread(c) ==
  variant = "mt" => \E w \in Workers : wpc[w] = "run" /\ wjob[w] = c
Running(c) == hpc[c] \notin {"none", "closed"} /\ OnThread(c)

\* tokio::spawn (ch. 22, 25) and the direct call of ch. 20: the handler
\* starts without passing through a pool.
Spawn(c) ==
  /\ c = nextJob
  /\ nextJob <= MaxJobs
  /\ nextJob' = nextJob + 1
  /\ sent' = sent \cup {c}
  /\ UNCHANGED <<sender, queue, rxHolder, wpc, wjob, dpc, joinIdx, runs,
                 outcome>>

\* The accept loop of main takes one connection.
Accept(c) ==
  /\ c \in DOMAIN rest
  /\ dpc = "alive"
  /\ hpc[c] = "none"
  /\ variant = "st" => \A d \in Conns : hpc[d] \in {"none", "closed"}
  /\ IF variant = "mt" THEN Execute(c) ELSE Spawn(c)
  /\ hpc' = [hpc EXCEPT ![c] = "start"]
  /\ UNCHANGED <<variant, store, rw, line, resp, snap, rest, inp, out,
                 closedBy>>

Close(c, why) ==
  /\ hpc' = [hpc EXCEPT ![c] = "closed"]
  /\ closedBy' = [closedBy EXCEPT ![c] = why]

\* handle_client up to its loop: try_clone / split succeeded.
HandlerStart(c) ==
  /\ Running(c)
  /\ hpc[c] = "start"
  /\ hpc' = [hpc EXCEPT ![c] = "reading"]
  /\ UNCHANGED <<poolVars, variant, store, rw, line, resp, snap, rest, inp,
                 out, closedBy>>

\* stream.try_clone() failed: return (ch. 20, 21).
CloneFail(c) ==
  /\ Running(c)
  /\ hpc[c] = "start"
  /\ variant \in {"st", "mt"}
  /\ Close(c, "ioerr")
  /\ UNCHANGED <<poolVars, variant, store, rw, line, resp, snap, rest, inp,
                 out>>

\* One line was read.
ReadLine(c) ==
  /\ Running(c)
  /\ hpc[c] = "reading"
  /\ rest[c] # <<>>
  /\ rest' = [rest EXCEPT ![c] = Tail(@)]
  /\ inp' = [inp EXCEPT ![c] = Append(@, Head(rest[c]))]
  /\ IF SkipLine(variant, Head(rest[c]))
     THEN UNCHANGED <<hpc, line>>
     ELSE /\ hpc' = [hpc EXCEPT ![c] = "dispatch"]
          /\ line' = [line EXCEPT ![c] = PassedLine(variant, Head(rest[c]))]
  /\ UNCHANGED <<poolVars, variant, store, rw, resp, snap, out, closedBy>>

\* The peer closed: lines() ends / read_line returns 0.
ReadEof(c) ==
  /\ Running(c)
  /\ hpc[c] = "reading"
  /\ rest[c] = <<>>
  /\ Close(c, "eof")
  /\ UNCHANGED <<poolVars, variant, store, rw, line, resp, snap, rest, inp,
                 out>>

\* The read failed: Err(_) => break / unwrap_or(0) == 0.
ReadErr(c) ==
  /\ Running(c)
  /\ hpc[c] = "reading"
  /\ Close(c, "ioerr")
  /\ UNCHANGED <<poolVars, variant, store, rw, line, resp, snap, rest, inp,
                 out>>

\* execute_command on an arm that takes no lock (in ch. 20: every arm, on
\* the &mut HashMap of the single thread).
Dispatch(c) ==
  /\ Running(c)
  /\ hpc[c] = "dispatch"
  /\ LockKind(variant, line[c]) = "none"
  /\ \E r \in Exec(variant, line[c], store) :
       /\ resp' = [resp EXCEPT ![c] = r.resp]
       /\ store' = r.store
  /\ hpc' = [hpc EXCEPT ![c] = "write"]
  /\ UNCHANGED <<poolVars, variant, rw, line, snap, rest, inp, out, closedBy>>

\* store.read() returned.
AcquireRead(c) ==
  /\ Running(c)
  /\ hpc[c] = "dispatch"
  /\ LockKind(variant, line[c]) = "read"
  /\ CanRead
  /\ rw' = [rw EXCEPT !.readers = @ \cup {c}]
  /\ hpc' = [hpc EXCEPT ![c] = "rhold"]
  /\ UNCHANGED <<poolVars, variant, store, line, resp, snap, rest, inp, out,
                 closedBy>>

\* Mutant: the read guard outlives the arm and is still held while the
\* response is written.
ReadOpKeepsGuard(c) ==
  /\ Running(c)
  /\ hpc[c] = "rhold"
  /\ \E r \in Exec(variant, line[c], store) :
       resp' = [resp EXCEPT ![c] = r.resp]
  /\ hpc' = [hpc EXCEPT ![c] = "write"]
  /\ UNCHANGED <<poolVars, variant, store, rw, line, snap, rest, inp, out,
                 closedBy>>
\* The lookup under the read guard and the guard's drop at the arm's end.
ReadOp(c) ==
  /\ Running(c)
  /\ hpc[c] = "rhold"
  /\ \E r \in Exec(variant, line[c], store) :
       resp' = [resp EXCEPT ![c] =
                  IF \E d \in Conns : hpc[d] = "wmid" THEN RespTorn
                  ELSE r.resp]
  /\ rw' = [rw EXCEPT !.readers = @ \ {c}]
  /\ hpc' = [hpc EXCEPT ![c] = IF resp'[c] = RespPanic THEN "closed"
                               ELSE "write"]
  /\ closedBy' = [closedBy EXCEPT ![c] = IF resp'[c] = RespPanic
                                         THEN "panic" ELSE @]
  /\ UNCHANGED <<poolVars, variant, store, line, snap, rest, inp, out>>

\* store.write() returned and the mutation of the map has begun.
AcquireWrite(c) ==
  /\ Running(c)
  /\ hpc[c] = "dispatch"
  /\ LockKind(variant, line[c]) = "write"
  /\ CanWrite
  /\ rw' = [rw EXCEPT !.writer = c]
  /\ snap' = [snap EXCEPT ![c] = store]
  /\ hpc' = [hpc EXCEPT ![c] = "wmid"]
  /\ UNCHANGED <<poolVars, variant, store, line, resp, rest, inp, out,
                 closedBy>>

\* The mutation is complete and the write guard is dropped.
WriteOp(c) ==
  /\ Running(c)
  /\ hpc[c] = "wmid"
  /\ \E r \in Exec(variant, line[c], snap[c]) :
       /\ resp' = [resp EXCEPT ![c] = r.resp]
       /\ store' = r.store
  /\ snap' = [snap EXCEPT ![c] = EmptyMap]
  /\ rw' = [rw EXCEPT !.writer = 0]
  /\ hpc' = [hpc EXCEPT ![c] = "write"]
  /\ UNCHANGED <<poolVars, variant, line, rest, inp, out, closedBy>>

\* writer.write_all(response) succeeded; then the QUIT test.
WriteResp(c) ==
  /\ Running(c)
  /\ hpc[c] = "write"
  /\ out' = [out EXCEPT ![c] =
               Append(@, [n |-> Len(inp[c]), resp |-> resp[c]])]
  /\ IF BreaksOnQuit(variant, line[c])
     THEN Close(c, "quit")
     ELSE /\ hpc' = [hpc EXCEPT ![c] = "reading"]
          /\ UNCHANGED closedBy
  /\ line' = [line EXCEPT ![c] = <<>>]
  /\ resp' = [resp EXCEPT ![c] = <<>>]
  /\ UNCHANGED <<poolVars, variant, store, rw, snap, rest, inp>>

\* writer.write_all(response) failed: break.
WriteFail(c) ==
  /\ Running(c)
  /\ hpc[c] = "write"
  /\ Close(c, "ioerr")
  /\ line' = [line EXCEPT ![c] = <<>>]
  /\ resp' = [resp EXCEPT ![c] = <<>>]
  /\ UNCHANGED <<poolVars, variant, store, rw, snap, rest, inp, out>>

\* The steps of the worker pool inside the thread-pooled server.
PoolStep ==
  /\ variant = "mt"
  /\ \/ \E w \in Workers : WorkerLock(w)
     \/ \E w \in Workers : WorkerRecvOk(w)
     \/ \E w \in Workers : JobReturn(w)
  /\ UNCHANGED srvVars

ServerNext ==
  \/ \E c \in Conns : Accept(c)
  \/ \E c \in Conns : HandlerStart(c)
  \/ \E c \in Conns : CloneFail(c)
  \/ \E c \in Conns : ReadLine(c)
  \/ \E c \in Conns : ReadEof(c)
  \/ \E c \in Conns : ReadErr(c)
  \/ \E c \in Conns : Dispatch(c)
  \/ \E c \in Conns : AcquireRead(c)
  \/ \E c \in Conns : ReadOp(c)
  \/ \E c \in Conns : AcquireWrite(c)
  \/ \E c \in Conns : WriteOp(c)
  \/ \E c \in Conns : WriteResp(c)
  \/ \E c \in Conns : WriteFail(c)
  \/ PoolStep

\* The servers on connections without I/O failures.
HealthyNext ==
  \/ \E c \in Conns : Accept(c)
  \/ \E c \in Conns : HandlerStart(c)
  \/ \E c \in Conns : ReadLine(c)
  \/ \E c \in Conns : ReadEof(c)
  \/ \E c \in Conns : Dispatch(c)
  \/ \E c \in Conns : AcquireRead(c)
  \/ \E c \in Conns : ReadOp(c)
  \/ \E c \in Conns : AcquireWrite(c)
  \/ \E c \in Conns : WriteOp(c)
  \/ \E c \in Conns : WriteResp(c)
  \/ PoolStep

\* Whether a failed accept ends main: listener.accept().await.unwrap()
\* panics (ch. 22, 25); the Err arm of the match on incoming() only
\* reports (ch. 20, 21).
AcceptErrFatal(v) == v \in {"async", "ext"}

\* The accept of connection attempt c fails.  Where that is fatal main
\* unwinds out of block_on, the runtime is dropped with it and every
\* spawned task is cancelled; the process ends.
AcceptFail(c) ==
  /\ c \in DOMAIN rest
  /\ dpc = "alive"
  /\ hpc[c] = "none"
  /\ variant = "st" => \A d \in Conns : hpc[d] \in {"none", "closed"}
  /\ c = nextJob
  /\ nextJob <= MaxJobs
  /\ nextJob' = nextJob + 1
  /\ IF AcceptErrFatal(variant)
     THEN /\ dpc' = "panicked"
          /\ hpc' = [d \in Conns |->
                       IF d = c \/ hpc[d] # "none" THEN "closed" ELSE "none"]
          /\ closedBy' = [d \in Conns |->
                            IF d = c THEN "refused"
                            ELSE IF hpc[d] \notin {"none", "closed"}
                                 THEN "abort" ELSE closedBy[d]]
          /\ rw' = [writer |-> 0, readers |-> {}]
     ELSE /\ hpc' = [hpc EXCEPT ![c] = "closed"]
          /\ closedBy' = [closedBy EXCEPT ![c] = "refused"]
          /\ UNCHANGED <<dpc, rw>>
  /\ UNCHANGED <<sender, queue, rxHolder, wpc, wjob, joinIdx, sent, runs,
                 outcome, variant, store, line, resp, snap, rest, inp, out>>

\* The servers with accepts that can fail, on healthy connections.
AcceptNext ==
  \/ HealthyNext
  \/ \E c \in Conns : AcceptFail(c)

\* The state after main has bound the listener and built store and pool,
\* for peers that will send the lines of scripts.
ServerInit(vs, scripts) ==
  /\ PoolNew
  /\ variant \in vs
  /\ store = EmptyMap
  /\ rw = [writer |-> 0, readers |-> {}]
  /\ hpc = [c \in Conns |-> "none"]
  /\ line = [c \in Conns |-> <<>>]
  /\ resp = [c \in Conns |-> <<>>]
  /\ snap = [c \in Conns |-> EmptyMap]
  /\ rest \in scripts
  /\ inp = [c \in Conns |-> <<>>]
  /\ out = [c \in Conns |-> <<>>]
  /\ closedBy = [c \in Conns |-> "none"]

(* ------------------------------ inputs --------------------------------- *)
K_a == <<"a">>
K_b == <<"b">>
V_1 == <<"1">>
V_2 == <<"2">>
MkSet(k, v) == W_SET \o <<SP>> \o k \o <<SP>> \o v
MkGet(k) == W_GET \o <<SP>> \o k
MkDel(k) == W_DEL \o <<SP>> \o k

\* Concurrent clients on healthy connections (the I/O failures are part of
\* SpecSession): every connection sends one command on keys a, b.
\* The first two connections run side by side in every variant; a later
\* one may have to wait for a pool worker.
ConcChoices(c) ==
  CASE c = 1 -> {MkSet(K_a, V_1), MkSet(K_b, V_1)}
    [] c = 2 -> {MkSet(K_a, V_2), MkDel(K_a), W_KEYS}
    [] OTHER -> {MkGet(K_a), W_QUIT}
ConcScripts ==
  {f \in [Conns -> {<<l>> : l \in UNION {ConcChoices(c) : c \in Conns}}] :
     \A c \in Conns : f[c][1] \in ConcChoices(c)}

SpecServer == ServerInit({"mt", "async"}, ConcScripts) /\ [][HealthyNext]_vars

\* One client talking to each of the four servers: up to MaxLines lines,
\* well-formed, blank, malformed, and QUIT in several spellings.
W_Quit == <<"Q","u","i","t">>
W_BOGUS == <<"B","O","G","U","S">>
SessionLines ==
  {<<>>, <<SP>>, MkSet(K_a, V_1), MkGet(K_a), W_GET, W_KEYS, W_BOGUS,
   W_QUIT, W_quit, W_Quit, W_QUIT \o <<SP>>, W_QUIT \o <<SP>> \o K_a}
RECURSIVE SeqsUpTo(_, _)
\* The sequences over S of length at most n.
SeqsUpTo(S, n) ==
  IF n = 0 THEN {<<>>}
  ELSE SeqsUpTo(S, n - 1) \cup
       {Append(q, x) : q \in SeqsUpTo(S, n - 1), x \in S}
SessionScripts == [{1} -> SeqsUpTo(SessionLines, MaxLines)]

SpecSession == ServerInit(Variants, SessionScripts) /\ [][ServerNext]_vars

\* Two connection attempts, each peer with one command to send, against
\* each of the four servers.
AcceptScripts == [{1, 2} -> {<<MkSet(K_a, V_1)>>, <<MkGet(K_a)>>}]

SpecAccept == ServerInit(Variants, AcceptScripts) /\ [][AcceptNext]_vars

(* ------------------- commands applied one after another ---------------- *)
\* One pass of the loop of handle_client on a healthy connection, taken as
\* a whole: read raw, skip it or run execute_command, write the response.
ServeLine(c, raw) ==
  /\ hpc[c] = "reading"
  /\ inp' = [inp EXCEPT ![c] = Append(@, raw)]
  /\ IF SkipLine(variant, raw)
     THEN UNCHANGED <<store, out, hpc, closedBy>>
     ELSE /\ \E r \in Exec(variant, PassedLine(variant, raw), store) :
               /\ store' = r.store
               /\ out' = [out EXCEPT ![c] =
                            Append(@, [n |-> Len(inp[c]) + 1,
                                       resp |-> r.resp])]
          /\ IF BreaksOnQuit(variant, PassedLine(variant, raw))
             THEN Close(c, "quit")
             ELSE UNCHANGED <<hpc, closedBy>>
  /\ UNCHANGED <<poolVars, variant, rw, line, resp, snap, rest>>

\* The values of the command lines: the strings of x and spaces, up to
\* MaxValLen long, that begin and end with x.
RECURSIVE StringsOfLen(_, _)
StringsOfLen(A, n) ==
  IF n = 0 THEN {<<>>}
  ELSE {Append(q, x) : q \in StringsOfLen(A, n - 1), x \in A}
CmdValues ==
  {v \in UNION {StringsOfLen({"x", SP}, n) : n \in 1..MaxValLen} :
     v[1] = "x" /\ v[Len(v)] = "x"}
CmdKeys == {K_a, K_b}
CmdLines ==
  {MkSet(k, v) : k \in CmdKeys, v \in CmdValues}
    \cup {MkGet(k) : k \in CmdKeys} \cup {MkDel(k) : k \in CmdKeys}

\* A connection in its loop on an empty store, in each of the servers.
CmdInit ==
  /\ PoolNew
  /\ variant \in Variants
  /\ store = EmptyMap
  /\ rw = [writer |-> 0, readers |-> {}]
  /\ hpc = [c \in Conns |-> IF c = 1 THEN "reading" ELSE "none"]
  /\ line = [c \in Conns |-> <<>>]
  /\ resp = [c \in Conns |-> <<>>]
  /\ snap = [c \in Conns |-> EmptyMap]
  /\ rest = [c \in {1} |-> <<>>]
  /\ inp = [c \in Conns |-> <<>>]
  /\ out = [c \in Conns |-> <<>>]
  /\ closedBy = [c \in Conns |-> "none"]

CmdNext ==
  \E raw \in CmdLines : Len(inp[1]) < MaxCmds /\ ServeLine(1, raw)

SpecCmd == CmdInit /\ [][CmdNext]_vars

(* ----------------- the command set, one line after another ------------- *)
V_3 == <<"3">>
V_4 == <<"4">>
W_Set == <<"S","e","t">>
W_Get == <<"G","e","t">>
W_dEL == <<"d","E","L">>
W_Keys == <<"K","e","y","s">>
\* verb followed by its operands, separated by single spaces
MkLine(verb, operands) == Join(<<verb>> \o operands, <<SP>>)
LRangeAll(k) == MkLine(W_LRANGE, <<k, <<"0">>, <<"-","1">>>>)

\* The command set of the four servers on keys a and b: every verb, DEL
\* with one key, two keys and a repeated key, LPUSH, LRANGE, verbs in mixed
\* case, the empty line and an unknown verb.
ProtoLines ==
  {MkSet(K_a, V_1), MkSet(K_b, V_2), MkGet(K_a), MkDel(K_a),
   MkLine(W_DEL, <<K_a, K_b>>), MkLine(W_DEL, <<K_a, K_a>>),
   W_KEYS,
   MkLine(W_LPUSH, <<K_a, V_1, V_2>>), MkLine(W_LPUSH, <<K_a, V_3, V_4>>),
   LRangeAll(K_a),
   MkLine(W_Set, <<K_a, V_3>>), MkLine(W_Get, <<K_a>>),
   MkLine(W_dEL, <<K_a>>), W_Keys,
   <<>>, W_BOGUS, W_PING}

\* A connection in its loop on the empty store of a server just started.
ProtoInit == CmdInit

ProtoNext ==
  \E raw \in ProtoLines : Len(inp[1]) < MaxSteps /\ ServeLine(1, raw)

SpecProto == ProtoInit /\ [][ProtoNext]_vars

(* ------------------ the store lock under two clients ------------------ *)
\* Two clients of the servers that share the store under a lock, each with
\* one command: a write, a read, or one that takes no lock; the extended
\* server also with its list commands.  Connections can fail at any point.
LockLines ==
  {MkSet(K_a, V_1), MkGet(K_a), MkDel(K_a), W_QUIT,
   MkLine(W_LPUSH, <<K_a, V_1>>),
   MkLine(W_LRANGE, <<K_a, <<"0">>, <<"-","1">>>>)}
LockScripts == [{1, 2} -> {<<l>> : l \in LockLines}]

SpecLocks ==
  ServerInit({"mt", "async", "ext"}, LockScripts) /\ [][ServerNext]_vars

(* --------------------- lines with spaces around them ------------------- *)
\* Commands as they are, with a space before, after, and on both sides;
\* the empty line and lines of spaces only.
TrimLines ==
  UNION {{l, <<SP>> \o l, l \o <<SP>>, <<SP>> \o l \o <<SP>>} :
           l \in {MkSet(K_a, V_1), MkGet(K_a), W_KEYS}}
    \cup {<<>>, <<SP>>, <<SP, SP>>}

TrimInit == CmdInit

TrimNext ==
  \E raw \in TrimLines : Len(inp[1]) < MaxCmds /\ ServeLine(1, raw)

SpecTrim == TrimInit /\ [][TrimNext]_vars

(* ------------------- range queries on the extended server -------------- *)
Indices == (0 - MaxIdx)..MaxIdx
MkLRange(k, s, t) == MkLine(W_LRANGE, <<k, FmtInt(s), FmtInt(t)>>)
\* The lines that build and remove the list under key a.
BuildLines ==
  {MkLine(W_LPUSH, <<K_a, V_1, V_2>>), MkLine(W_LPUSH, <<K_a, V_3>>),
   MkDel(K_a)}
NoRangeYet ==
  \A i \in 1..Len(inp[1]) : Head(SplitWhitespace(inp[1][i])) # W_LRANGE

\* A connection to the extended server, its store empty.
RangeInit == CmdInit /\ variant = "ext"

\* The client builds the list with up to MaxPushes lines ...
BuildStep ==
  \E raw \in BuildLines :
    Len(inp[1]) < MaxPushes /\ NoRangeYet /\ ServeLine(1, raw)
\* ... and queries it once, with any pair of indices.
RangeStep ==
  \E s, t \in Indices : NoRangeYet /\ ServeLine(1, MkLRange(K_a, s, t))

RangeNext == BuildStep \/ RangeStep

SpecRange == RangeInit /\ [][RangeNext]_vars

(* ------------------- values that look like a reply marker -------------- *)
\* One client of the extended server sets key a to a value, reads it back
\* and deletes it; the values include the text -1.
V_Minus1 == <<"-", "1">>
NullValues == {V_1, V_Minus1, <<"-">>, <<"1", "-">>}
NullLines == {MkSet(K_a, v) : v \in NullValues} \cup {MkGet(K_a), MkDel(K_a)}

NullInit == CmdInit /\ variant = "ext"

NullNext ==
  \E raw \in NullLines : Len(inp[1]) < MaxSteps /\ ServeLine(1, raw)

SpecNull == NullInit /\ [][NullNext]_vars

(* ------------------------ claims on the pool --------------------------- *)

\* C1: every job handed to execute() before the pool is dropped is executed
\* exactly once: no job is started twice, and once drop has returned every
\* submitted job has been started once (none was lost).
C1_ExactlyOnce ==
  /\ \A j \in Jobs : runs[j] <= 1
  /\ dpc = "dropped" => \A j \in sent : runs[j] = 1

\* C2: when drop returns, every worker thread has ended, nothing is queued
\* or running, and every job submitted before the drop has run to its end.
C2_DropWaitsForAllJobs ==
  dpc = "dropped" =>
    /\ \A w \in Workers : Terminated(w) /\ wjob[w] = 0
    /\ queue = <<>>
    /\ \A j \in sent : outcome[j] # "none"

\* C3: a panicking job does not take its worker down: as long as the pool
\* has not been shut down all PoolSize workers are alive.
C3_WorkersSurvivePanic ==
  dpc = "alive" => \A w \in Workers : ~Terminated(w)

(* ------------------- claims on the concurrent servers ------------------ *)
Range(q) == {q[i] : i \in 1..Len(q)}
\* Everything the peer of connection c sends.
Script(c) == inp[c] \o rest[c]
\* The raw line that the i-th response of connection c answers.
Answered(c, i) == inp[c][out[c][i].n]

WriteHolders == {c \in Conns : hpc[c] = "wmid"}
ReadHolders == {c \in Conns : hpc[c] = "rhold"}

\* C4: at most one handler is inside a SET/DEL on the store, and while one
\* is, no handler is inside a GET/KEYS; readers may overlap each other.
C4_WriterExcludesAll ==
  /\ Cardinality(WriteHolders) <= 1
  /\ WriteHolders # {} => ReadHolders = {}

\* A writer is inside its mutation while a would-be reader and a would-be
\* writer have their commands and wait for the lock.
C4_Witness ==
  /\ WriteHolders # {}
  /\ \E c \in Conns : hpc[c] = "dispatch" /\ line[c] \in {MkGet(K_a), W_KEYS}
  /\ \E c \in Conns : hpc[c] = "dispatch" /\ line[c] = MkSet(K_a, V_2)

\* Two handlers hold read access at the same time.
ReadersOverlap == Cardinality(ReadHolders) >= 2

\* C5: the response to GET k is NOT_FOUND or VALUE v for a v that some
\* connection's SET k v wrote in full; never a value caught in mid-write.
C5_GetSeesWholeValue ==
  \A c \in Conns : \A i \in 1..Len(out[c]) : \A k \in {K_a, K_b} :
    Answered(c, i) = MkGet(k) =>
      out[c][i].resp \in
        {RespNotFound} \cup
        {RespValue(v) : v \in {w \in {V_1, V_2} :
                                 \E d \in Conns : MkSet(k, w) \in Range(inp[d])}}

\* GET a was answered with the old value 1 while SET a 2, already read by
\* its handler, had not completed.
C5_Witness ==
  /\ \E c \in Conns : \E i \in 1..Len(out[c]) :
       Answered(c, i) = MkGet(K_a) /\ out[c][i].resp = RespValue(V_1)
  /\ \E d \in Conns :
       hpc[d] \in {"dispatch", "wmid"} /\ line[d] = MkSet(K_a, V_2)

IsSetLine(l) == \E k \in {K_a, K_b}, v \in {V_1, V_2} : l = MkSet(k, v)
Setters == {c \in Peers : \E l \in Range(Script(c)) : IsSetLine(l)}
\* The SETs are on distinct keys and nobody sends DEL.
DistinctSets ==
  /\ \A c \in Peers : \A k \in {K_a, K_b} : MkDel(k) \notin Range(Script(c))
  /\ \A c, d \in Setters : \A k \in {K_a, K_b}, v, w \in {V_1, V_2} :
       (MkSet(k, v) \in Range(Script(c)) /\ MkSet(k, w) \in Range(Script(d)))
         => c = d
AllSetsAnswered ==
  \A c \in Setters : rest[c] = <<>> /\ Len(out[c]) = Len(inp[c])

\* C6: when the connections SET distinct keys (and no DEL is sent), then
\* once every SET has been answered the store holds every entry.
C6_NoLostUpdate ==
  (DistinctSets /\ AllSetsAnswered) =>
    \A c \in Setters : \A k \in {K_a, K_b}, v \in {V_1, V_2} :
      MkSet(k, v) \in Range(inp[c]) => MapHas(store, k) /\ store[k] = v

\* Two connections have set two distinct keys and both were answered.
C6_Witness ==
  /\ DistinctSets
  /\ AllSetsAnswered
  /\ Cardinality(Setters) >= 2

\* Handlers that have started and not yet ended.
ActiveHandlers ==
  {c \in Conns : hpc[c] \in {"reading", "dispatch", "rhold", "wmid", "write"}}
Queued == Range(queue)

\* C7: in the thread-pooled server at most PoolSize handlers are executing;
\* an accepted connection whose handler has not started is in the job queue
\* or has just been taken by a worker.
C7_AtMostPoolSizeHandlers ==
  variant = "mt" =>
    /\ Cardinality(ActiveHandlers) <= PoolSize
    /\ \A c \in Conns :
         hpc[c] = "start" => c \in Queued \/ \E w \in Workers : wjob[w] = c

\* PoolSize handlers are running and a further accepted connection waits
\* in the queue.
C7_Witness ==
  /\ variant = "mt"
  /\ Cardinality(ActiveHandlers) = PoolSize
  /\ \E c \in Conns : hpc[c] = "start" /\ c \in Queued

(* --------------------- claims on the line protocol --------------------- *)
\* The response that connection c wrote for its n-th line is r.
AnsweredWith(c, n, r) ==
  \E i \in 1..Len(out[c]) : out[c][i].n = n /\ out[c][i].resp = r

\* C8: SET k v directly followed by GET k answers exactly v (VALUE v, or
\* $v in the extended protocol), in every server, for values with spaces.
C8_SetGetRoundTrip ==
  \A n \in 1..(Len(inp[1]) - 1) : \A k \in CmdKeys, v \in CmdValues :
    (inp[1][n] = MkSet(k, v) /\ inp[1][n + 1] = MkGet(k)) =>
      AnsweredWith(1, n + 1,
                   IF variant = "ext" THEN RespBulk(v) ELSE RespValue(v))

\* The round trip of a value with an inner space through a basic server.
RoundTripSeen ==
  /\ variant = "mt"
  /\ Len(inp[1]) = 2
  /\ inp[1][1] = MkSet(K_a, <<"x", SP, "x">>)
  /\ AnsweredWith(1, 2, RespValue(<<"x", SP, "x">>))

\* A line that carries a command: something other than whitespace.
IsCommandLine(raw) == Trim(raw) # <<>>

\* C9: on every connection each command line gets exactly one response,
\* written before the next line is read, and the responses come in the
\* order of the lines.
C9_OneResponsePerCommand ==
  \A c \in Conns :
    /\ \A i \in 1..Len(out[c]) : out[c][i].n \in 1..Len(inp[c])
    /\ \A i, j \in 1..Len(out[c]) : i < j => out[c][i].n < out[c][j].n
    /\ \A n \in 1..(Len(inp[c]) - 1) :
         IsCommandLine(inp[c][n]) => \E i \in 1..Len(out[c]) : out[c][i].n = n
    /\ (hpc[c] = "reading" /\ inp[c] # <<>> /\ IsCommandLine(inp[c][Len(inp[c])]))
         => \E i \in 1..Len(out[c]) : out[c][i].n = Len(inp[c])

\* Two commands were read on a connection and both were answered.
C9_Witness ==
  /\ Len(inp[1]) = 2
  /\ IsCommandLine(inp[1][1]) /\ IsCommandLine(inp[1][2])
  /\ Len(out[1]) = 2

\* QUIT as the grammar defines it: the verb in any case, the line trimmed.
IsQuitCommand(raw) == EqIgnoreAsciiCase(Trim(raw), W_QUIT)

\* C10: a session is closed only by QUIT, by the end of the stream or by an
\* I/O failure; after the response to any line that is not QUIT (malformed
\* and unknown lines included) the handler is reading again.
C10_OnlyQuitEofOrIoCloses ==
  /\ [](\A c \in Conns : closedBy[c] \in {"none", "quit", "eof", "ioerr"})
  /\ [][\A c \in Conns :
         (out'[c] # out[c] /\ ~IsQuitCommand(inp[c][Len(inp[c])]))
           => hpc'[c] = "reading"]_vars

\* An unknown command was answered with the error response and the handler
\* is reading again.
C10_Witness ==
  /\ hpc[1] = "reading"
  /\ Len(inp[1]) = 1
  /\ inp[1][1] = W_BOGUS
  /\ AnsweredWith(1, 1, IF variant = "ext" THEN RespErrUnknown ELSE RespUnknown)

\* The acknowledgement of QUIT in the protocol of server v.
QuitAck(v) == IF v = "ext" THEN RespPlusOK ELSE RespBye

\* C11: once a connection has read QUIT it reads no further line and never
\* returns to reading; the only response it writes for the QUIT is the
\* acknowledgement (BYE, +OK in the extended server), and it ends closed by
\* the QUIT or, when the write failed, by the I/O failure.
C11_QuitAckThenClosed ==
  \A c \in Conns : \A n \in 1..Len(inp[c]) :
    inp[c][n] \in {W_QUIT, W_quit} =>
      /\ n = Len(inp[c])
      /\ hpc[c] \in {"dispatch", "write", "closed"}
      /\ \A i \in 1..Len(out[c]) :
           out[c][i].n = n => out[c][i].resp = QuitAck(variant)
      /\ hpc[c] = "closed" => closedBy[c] \in {"quit", "ioerr"}
      /\ closedBy[c] = "quit" => AnsweredWith(c, n, QuitAck(variant))

\* C12: an empty line is never answered and never reaches execute_command:
\* after reading it the handler is reading again (or has ended on the end
\* of the stream or a failed read).
C12_EmptyLineIgnored ==
  \A c \in Conns :
    /\ \A i \in 1..Len(out[c]) : Answered(c, i) # <<>>
    /\ (inp[c] # <<>> /\ inp[c][Len(inp[c])] = <<>>)
         => hpc[c] \in {"reading", "closed"}

(* ---------------------- claims on the command set ---------------------- *)
\* The line that the step being taken has read on connection 1, and the
\* response written for it.
LineServed == inp'[1][Len(inp'[1])]
Reply(r) == out'[1] = Append(out[1], [n |-> Len(inp'[1]), resp |-> r])
NoReply == out'[1] = out[1]

\* raw with its verb (the first word) in upper case
UpperVerb(raw) ==
  ToUppercase(SubSeq(raw, 1, WordLen(raw)))
    \o SubSeq(raw, WordLen(raw) + 1, Len(raw))

\* C13: serving a line gives a response and a store that serving the same
\* line with its verb in upper case can give, whatever the case of the
\* verb's letters.
C13_VerbCaseInsensitive ==
  [][inp'[1] # inp[1] =>
       IF SkipLine(variant, UpperVerb(LineServed))
       THEN NoReply /\ store' = store
       ELSE \E r \in Exec(variant,
                          PassedLine(variant, UpperVerb(LineServed)), store) :
              Reply(r.resp) /\ store' = r.store]_vars

\* A DEL line and the keys it lists.
IsDelLine(raw) ==
  Len(SplitWhitespace(raw)) >= 2 /\ Head(SplitWhitespace(raw)) = W_DEL
DelOperands(raw) == Tail(SplitWhitespace(raw))

\* C14: serving DEL k1 ... kn leaves exactly the entries whose key is not
\* listed, each with its value, and answers the number of listed keys that
\* were present, each counted once (OK in the basic protocol); in the
\* servers with a lock the arm takes the write lock.
C14_DelRemovesListedKeys ==
  [][(inp'[1] # inp[1] /\ IsDelLine(LineServed)) =>
       LET listed == Range(DelOperands(LineServed)) IN
         /\ store' = [k \in (DOMAIN store) \ listed |-> store[k]]
         /\ Reply(IF variant = "ext"
                  THEN RespInteger(Cardinality(listed \cap DOMAIN store))
                  ELSE RespOK)
         /\ variant # "st" =>
              LockKind(variant, PassedLine(variant, LineServed)) = "write"]_vars

\* The DEL lines a server's DEL arm takes: one key in the basic servers,
\* one or more in the extended one.
DelTaken(v, raw) ==
  IsDelLine(raw) /\ (v = "ext" \/ Len(DelOperands(raw)) = 1)
\* The answer of a DEL that removed nothing.
ZeroRemoved(v) == IF v = "ext" THEN RespInteger(0) ELSE RespOK

\* C15: a DEL none of whose keys is in the store answers zero removed (OK
\* in the basic protocol), not an error, and leaves the store as it was;
\* and a DEL that repeats the line served just before it answers zero
\* removed and leaves the store as the first DEL left it.
C15_DelAbsentAndIdempotent ==
  [][(inp'[1] # inp[1] /\ DelTaken(variant, LineServed)) =>
       /\ Range(DelOperands(LineServed)) \cap DOMAIN store = {}
            => Reply(ZeroRemoved(variant)) /\ store' = store
       /\ (inp[1] # <<>> /\ inp[1][Len(inp[1])] = LineServed)
            => Reply(ZeroRemoved(variant)) /\ store' = store]_vars

\* The extended server removed a key that was set and then answered the
\* repeated DEL with :0.
C15_Witness ==
  /\ variant = "ext"
  /\ inp[1] = <<MkSet(K_a, V_1), MkDel(K_a), MkDel(K_a)>>
  /\ AnsweredWith(1, 2, RespInteger(1))
  /\ AnsweredWith(1, 3, RespInteger(0))
  /\ store = EmptyMap

\* The not-found response in the protocol of server v.
NotFound(v) == IF v = "ext" THEN RespNull ELSE RespNotFound
\* No line read so far names k as its first operand (k was never set).
NeverNamed(k) ==
  \A i \in 1..Len(inp[1]) :
    Len(SplitWhitespace(inp[1][i])) < 2 \/ SplitWhitespace(inp[1][i])[2] # k
\* The line served just before was DEL k.
JustDeleted(k) == inp[1] # <<>> /\ inp[1][Len(inp[1])] = MkDel(k)

\* C16: serving GET k never changes the store, and it answers not-found
\* (NOT_FOUND, $-1 in the extended protocol) whenever k is not in the
\* store, in particular when no line has set k and when DEL k was served
\* just before.
C16_GetAbsentNotFound ==
  [][\A k \in CmdKeys :
       (inp'[1] # inp[1] /\ LineServed = MkGet(k)) =>
         /\ store' = store
         /\ (~MapHas(store, k) \/ NeverNamed(k) \/ JustDeleted(k))
              => Reply(NotFound(variant))]_vars

\* A thread-pooled server answered NOT_FOUND for a key that had been set
\* and deleted.
C16_Witness ==
  /\ variant = "mt"
  /\ inp[1] = <<MkSet(K_a, V_1), MkDel(K_a), MkGet(K_a)>>
  /\ AnsweredWith(1, 3, RespNotFound)
  /\ store = EmptyMap

\* The first n lines read are SETs (SET k v as the tests write it) on n
\* distinct keys.
DistinctSetsBefore(n) ==
  /\ \A i \in 1..n : \E k \in CmdKeys, v \in {V_1, V_2} : inp[1][i] = MkSet(k, v)
  /\ \A i, j \in 1..n :
       i # j => SplitWhitespace(inp[1][i])[2] # SplitWhitespace(inp[1][j])[2]
KeysSetBefore(n) == {SplitWhitespace(inp[1][i])[2] : i \in 1..n}

\* r is a KEYS response that lists exactly the keys of S, each once.
ListsExactly(r, S) ==
  LET words == SplitWhitespace(r) IN
  IF S = {} THEN r = RespKeysEmpty
  ELSE /\ r[Len(r)] = NL
       /\ Head(words) = W_KEYS
       /\ Len(words) = Cardinality(S) + 1
       /\ {words[i] : i \in 2..Len(words)} = S

\* C17: in the basic servers, when the lines before a KEYS are SETs on
\* distinct keys, in any order, on a store that started empty, the response
\* to KEYS lists exactly those keys, each once; with no line before it the
\* response is KEYS (empty).
C17_KeysListsEachKeyOnce ==
  variant # "ext" =>
    \A n \in 1..Len(inp[1]) :
      (inp[1][n] = W_KEYS /\ DistinctSetsBefore(n - 1)) =>
        \E i \in 1..Len(out[1]) :
          out[1][i].n = n /\ ListsExactly(out[1][i].resp, KeysSetBefore(n - 1))

\* b was set before a and KEYS answered a before b.
C17_Witness ==
  /\ variant = "async"
  /\ inp[1] = <<MkSet(K_b, V_2), MkSet(K_a, V_1), W_KEYS>>
  /\ AnsweredWith(1, 3, RespKeys(<<K_a, K_b>>))

\* An LPUSH line on key k and the values it lists.
IsLPushOn(raw, k) ==
  /\ Len(SplitWhitespace(raw)) >= 3
  /\ SplitWhitespace(raw)[1] = W_LPUSH
  /\ SplitWhitespace(raw)[2] = k
PushedValues(raw) == SubSeq(SplitWhitespace(raw), 3, Len(SplitWhitespace(raw)))

RECURSIVE PushedBefore(_)
\* The list that LPUSH lines 1..n build when each line's values go, in the
\* order of the line, in front of what the earlier lines pushed.
PushedBefore(n) ==
  IF n = 0 THEN <<>> ELSE PushedValues(inp[1][n]) \o PushedBefore(n - 1)

RECURSIVE ItemLines(_)
ItemLines(items) ==
  IF items = <<>> THEN <<>>
  ELSE <<"$">> \o Head(items) \o <<NL>> \o ItemLines(Tail(items))
\* The array reply: *n and one $item line per element.
ArrayReply(items) == <<"*">> \o FmtNat(Len(items)) \o <<NL>> \o ItemLines(items)

\* C18: in the extended server, when the lines before LRANGE k 0 -1 are
\* LPUSHes on k (the first one on an absent key), the response is the array
\* of all pushed values: each LPUSH's values in the order of its command
\* line, a later LPUSH's values in front of an earlier one's.
C18_LPushKeepsCommandOrder ==
  variant = "ext" =>
    \A n \in 2..Len(inp[1]) : \A k \in CmdKeys :
      (inp[1][n] = LRangeAll(k) /\ \A i \in 1..(n - 1) : IsLPushOn(inp[1][i], k))
        => AnsweredWith(1, n, ArrayReply(PushedBefore(n - 1)))

\* LPUSH a 1 2, LPUSH a 3 4, LRANGE a 0 -1 answered 3 4 1 2.
C18_Witness ==
  /\ variant = "ext"
  /\ inp[1] = <<MkLine(W_LPUSH, <<K_a, V_1, V_2>>),
                MkLine(W_LPUSH, <<K_a, V_3, V_4>>), LRangeAll(K_a)>>
  /\ AnsweredWith(1, 3, <<"*","4",NL, "$","3",NL, "$","4",NL,
                          "$","1",NL, "$","2",NL>>)

\* The verb of a line, in upper case, and its first operand.
VerbOf(raw) ==
  IF SplitWhitespace(raw) = <<>> THEN <<>>
  ELSE ToUppercase(Head(SplitWhitespace(raw)))
KeyOf(raw) ==
  IF Len(SplitWhitespace(raw)) < 2 THEN <<>> ELSE SplitWhitespace(raw)[2]
Holds(m, k, type) == MapHas(m, k) /\ m[k].t = type

\* The line is a list operation on a key holding a string, or a GET on a
\* key holding a list.
TypeMismatch(raw, m) ==
  \/ /\ VerbOf(raw) = W_LPUSH /\ Len(SplitWhitespace(raw)) >= 3
     /\ Holds(m, KeyOf(raw), "String")
  \/ /\ VerbOf(raw) = W_LRANGE /\ Len(SplitWhitespace(raw)) = 4
     /\ Holds(m, KeyOf(raw), "String")
  \/ /\ VerbOf(raw) = W_GET /\ Len(SplitWhitespace(raw)) = 2
     /\ Holds(m, KeyOf(raw), "List")

\* C19: in the extended server a step that serves a list operation on a
\* string key, or GET on a list key, answers -WRONGTYPE, leaves the whole
\* store as it was, and leaves the handler reading the next line.
C19_WrongTypeNoEffect ==
  [][(variant = "ext" /\ inp'[1] # inp[1] /\ TypeMismatch(LineServed, store)) =>
       /\ Reply(RespWrongType)
       /\ store' = store
       /\ hpc'[1] = "reading"
       /\ closedBy'[1] = "none"]_vars

\* LPUSH on the string key a was refused and the GET after it still
\* answered the string.
C19_Witness ==
  /\ variant = "ext"
  /\ inp[1] = <<MkSet(K_a, V_1), MkLine(W_LPUSH, <<K_a, V_1, V_2>>), MkGet(K_a)>>
  /\ AnsweredWith(1, 2, RespWrongType)
  /\ AnsweredWith(1, 3, RespBulk(V_1))
  /\ hpc[1] = "reading"

\* The first byte of a reply in the typed format.
TypeMarkers == {"+", "$", ":", "*", "-"}

\* C20: every response the extended server has written starts with one of
\* the markers + $ : * - of the typed reply format.
C20_ExtRepliesAreTyped ==
  variant = "ext" =>
    \A c \in Conns : \A i \in 1..Len(out[c]) :
      out[c][i].resp # <<>> /\ Head(out[c][i].resp) \in TypeMarkers

(* ------------------------ claims on LRANGE ----------------------------- *)
\* The list under key k in map m (empty when k is absent).
ListOf(m, k) == IF Holds(m, k, "List") THEN m[k].v ELSE <<>>
\* An index as the claim resolves it: a negative i counts from the end.
Resolved(i, len) == IF i < 0 THEN len + i ELSE i
\* The elements of vec at the positions p with start' <= p <= stop' and
\* 0 <= p < len.
Slice(vec, start, stop) ==
  LET lo == Max(Resolved(start, Len(vec)), 0)
      hi == Min(Resolved(stop, Len(vec)), Len(vec) - 1)
  IN IF lo > hi THEN <<>> ELSE SubSeq(vec, lo + 1, hi + 1)

\* C21: the reply to LRANGE a start stop is the array of the elements at
\* the positions between the resolved start and the resolved stop that lie
\* in the list, in list order; *0 when there is none.
C21_LRangeInclusiveSlice ==
  \A n \in 1..Len(inp[1]) : \A s, t \in Indices :
    inp[1][n] = MkLRange(K_a, s, t) =>
      AnsweredWith(1, n, ArrayReply(Slice(ListOf(store, K_a), s, t)))

\* C29: every list in the store has at least one element, and no LRANGE
\* has failed on an index outside its list: every LRANGE line was answered
\* with an array reply.
C29_LRangeNeverOutOfBounds ==
  /\ \A k \in DOMAIN store : store[k].t = "List" => store[k].v # <<>>
  /\ \A n \in 1..Len(inp[1]) : \A s, t \in Indices :
       inp[1][n] = MkLRange(K_a, s, t) =>
         \E i \in 1..Len(out[1]) :
           /\ out[1][i].n = n
           /\ out[1][i].resp # RespPanic
           /\ Head(out[1][i].resp) = "*"

\* A list of three elements was queried with a start below -len and a stop
\* beyond its end, and the whole list came back.
C29_Witness ==
  /\ inp[1] = <<MkLine(W_LPUSH, <<K_a, V_1, V_2>>), MkLine(W_LPUSH, <<K_a, V_3>>),
                MkLRange(K_a, 0 - 5, 5)>>
  /\ AnsweredWith(1, 3, ArrayReply(<<V_3, V_1, V_2>>))

(* ----------------------- claims on the acceptor ------------------------ *)
\* C22: a connection attempt whose accept failed leaves the acceptor
\* running, and no session is ended by it: main has not unwound and no
\* handler was cut off.
C22_AcceptFailureNotFatal ==
  /\ dpc = "alive"
  /\ \A c \in Conns : closedBy[c] # "abort"

(* ------------------ claims on whitespace and QUIT ---------------------- *)
\* C23: serving a line gives the response and the store that serving the
\* line without its leading and trailing whitespace can give; a line of
\* whitespace only is served like the empty line.
C23_SurroundingSpacesIgnored ==
  [][inp'[1] # inp[1] =>
       IF SkipLine(variant, Trim(LineServed))
       THEN NoReply /\ store' = store
       ELSE \E r \in Exec(variant, PassedLine(variant, Trim(LineServed)), store) :
              Reply(r.resp) /\ store' = r.store]_vars

(* --------------------- more claims on the pool ------------------------- *)
\* C24: once drop has dropped the sender, every worker eventually leaves
\* its loop and drop eventually returns.
C24_DropEventuallyReturns ==
  (dpc = "joining") ~> (dpc = "dropped" /\ \A w \in Workers : Terminated(w))

\* Drop has returned after every job was submitted and run to its end, all
\* workers having left their loop on the closed channel.
C24_Witness ==
  /\ dpc = "dropped"
  /\ \A w \in Workers : wpc[w] = "exited"
  /\ sent = Jobs
  /\ \A j \in Jobs : outcome[j] = "returned"

\* C26: a worker that is executing a job does not hold the lock on the
\* shared receiver; the lock is held only by a worker inside recv().
C26_NoLockWhileExecuting ==
  \A w \in Workers :
    /\ wpc[w] = "run" => rxHolder # w
    /\ rxHolder = w => wpc[w] = "recv"

\* While one worker's job is still running, another worker has taken the
\* lock and dequeued the next job.
C26_Witness ==
  \E w, x \in Workers :
    /\ w # x
    /\ wpc[w] = "run" /\ wjob[w] = 1 /\ outcome[1] = "none"
    /\ wpc[x] = "run" /\ wjob[x] = 2

\* C30: jobs are dequeued in the order of their submission (jobs are
\* numbered in that order): whenever a job has been handed to a worker,
\* every job submitted before it has been handed to a worker too.
C30_FifoDispatch ==
  \A a, b \in sent : (a < b /\ runs[b] >= 1) => runs[a] >= 1

\* Jobs 1 and 2 were queued together, both have been dequeued in that
\* order, and job 2 ended while job 1 is still running.
C30_Witness ==
  /\ runs[1] = 1 /\ runs[2] = 1
  /\ outcome[1] = "none" /\ outcome[2] = "returned"
  /\ 3 \in Range(queue)

\* C25: in the basic servers a session that was closed in reaction to a
\* line (not by the end of the stream or an I/O failure) wrote BYE as its
\* last response: a line answered ERROR unknown command never ends it.
C25_ClosesOnlyAfterBye ==
  variant # "ext" =>
    \A c \in Conns :
      closedBy[c] = "quit" =>
        out[c] # <<>> /\ out[c][Len(out[c])].resp = RespBye

(* --------------------- the store lock and the socket ------------------- *)
\* The handlers that are at the socket: reading a line or writing a
\* response (or not yet in, or already out of, their loop).
AtSocket == {c \in Conns : hpc[c] \in {"start", "reading", "write", "closed"}}

\* C27: a handler that is reading from or writing to its socket holds the
\* store lock neither for reading nor for writing; the lock is held only
\* inside execute_command.
C27_NoLockDuringSocketIO ==
  /\ \A c \in AtSocket : c \notin rw.readers /\ rw.writer # c
  /\ \A c \in rw.readers : hpc[c] = "rhold"
  /\ rw.writer # 0 => hpc[rw.writer] = "wmid"

\* One client's response is waiting to be written (its peer is slow) while
\* the other client has been granted the write lock.
C27_Witness ==
  /\ variant = "ext"
  /\ hpc[1] = "write" /\ resp[1] = RespNull
  /\ rw.writer = 2

(* ----------------------- claims on GET replies ------------------------- *)
\* C28: in the extended server the reply to GET k tells whether k is
\* present: when k holds a string, whatever value SET stored (the value -1
\* included), the reply is not the absent reply $-1.
C28_GetReplyTellsPresence ==
  [][(inp'[1] # inp[1] /\ LineServed = MkGet(K_a) /\ Holds(store, K_a, "String"))
       => ~Reply(RespNull)]_vars

====
